---- MODULE Spec2Model ----
(***************************************************************************)
(* Pingur (src/bot.py): the reminder store, the commands that write it and  *)
(* the check_reminders scheduler loop.                                      *)
(*                                                                          *)
(* Time is counted in whole minutes since an arbitrary UTC midnight.  A     *)
(* Python datetime is the record [wall, off, aware]: the wall-clock reading *)
(* in minutes, the UTC offset of its tzinfo, and whether it has a tzinfo.   *)
(* A stored timestamp is the TEXT isoformat() wrote: [w, z], the wall-clock *)
(* part and the offset suffix ("" for a naive datetime).  The wall-clock    *)
(* part is taken to have a fixed width (isoformat drops the microseconds    *)
(* only when they are exactly zero).                                        *)
(***************************************************************************)
EXTENDS Integers, Sequences, FiniteSets, TLC

VARIABLES
    clock,          \* the real UTC instant, in minutes
    hostOff,        \* UTC offset of the host's local timezone (datetime.now())
    guild_settings, \* guild_id -> [default_channel_id, timezone], rows only
    reminders,      \* id -> row of the reminders table, rows only
    nextId,         \* next AUTOINCREMENT id
    tick,           \* loop task -> state of its check_reminders iteration
    confirmView,    \* guilds with an open pause_all ConfirmView
    reply,          \* what the last command answered its caller
    ticks,          \* number of iterations begun          (history)
    log,            \* deliveries and commits of the ticks (history)
    lost,           \* deliveries a crash left uncommitted (history)
    templates,      \* <<guild_id, name>> -> row of reminder_templates
    aborted,        \* iterations the outer handler ended   (history)
    schema,         \* which relations the store holds, and in which version
    booted          \* setup_hook has run setup_database

vars == <<clock, hostOff, guild_settings, reminders, nextId, tick,
          confirmView, reply, ticks, log, lost, templates, aborted, schema,
          booted>>

(***************************** bounds **************************************)
MaxReminders == 1
MaxTicks == 2
BatchReminders == 2
StartClock == 600
MaxClock == 690

Steps == {30}
Guilds == {1}
HostOffsets == {-60, 0}
Zones == {"UTC", "Africa/Lagos"}
ZoneInputs == {"Africa/Lagos", "Mars/Phobos"}
PingInputs == {<<"minutes", 1, FALSE>>, <<"hours", 1, FALSE>>,
               <<"hours", 1, TRUE>>, <<"minutes", 0, FALSE>>}
User(i) == [id |-> i, role |-> FALSE]
Role(i) == [id |-> i, role |-> TRUE]
TargetInputs == {<<User(1)>>}
TimeInputs == {"10:30", "11:30", "soon"}
RepeatInputs == {"never"}
NoChannel == 0
Messages == {"hi"}
BatchInputs == {<<"minutes", 1, FALSE>>}

\* the requests of the command specification
CommandReminders == 2
CommandMaxClock == 630
CommandTargets == {<<User(1)>>, <<Role(2)>>, <<User(1), Role(2)>>,
                   <<Role(2), User(1)>>}
CommandPings == {<<"hours", 2, TRUE>>, <<"days", 1, FALSE>>}
CommandRepeats == {"never"}

\* the guilds and reminders of the two-guild specification
GuildReminders == 2
OwnerGuilds == {1, 2}

\* the requests of the template specification; "" is an option left out (None)
MaxTemplates == 3
TemplateReminders == 1
TemplateGuilds == {1, 2}
TemplateNames == {"standup"}
TemplateTimes == {"", "10:30"}
TemplateTargets == {"", "<@1>"}
OverrideTimes == {"", "11:30"}
OverrideTargets == {"", "<@&2>"}

(*************************** time and text *********************************)
\* mutant: every unit counts as minutes
TIME_UNITS_all_minutes == [minutes |-> 1, hours |-> 1, days |-> 1]

TIME_UNITS == [minutes |-> 1, hours |-> 60, days |-> 1440]

DayMinutes == 1440

\* pytz.timezone(name).utcoffset for the zones used (none of them has DST)
utcoffset(z) ==
    CASE z = "UTC" -> 0
      [] z = "Africa/Lagos" -> 60
      [] z = "Atlantic/Cape_Verde" -> -60

\* datetime.now(tz)
now_tz(z) == [wall |-> clock + utcoffset(z), off |-> utcoffset(z), aware |-> TRUE]

\* datetime.now(): naive, the host's local wall clock
now_naive == [wall |-> clock + hostOff, off |-> 0, aware |-> FALSE]

\* dt + timedelta(minutes=m)
plus_minutes(dt, m) == [dt EXCEPT !.wall = @ + m]

\* dt.astimezone(pytz.utc) of an aware datetime
astimezone_utc(dt) == [wall |-> dt.wall - dt.off, off |-> 0, aware |-> TRUE]

\* the "+HH:MM" suffix isoformat() appends for a UTC offset
OffsetText(o) ==
    CASE o = 0 -> "+00:00"
      [] o = 60 -> "+01:00"
      [] o = -60 -> "-01:00"

\* dt.isoformat()
isoformat(dt) == [w |-> dt.wall, z |-> IF dt.aware THEN OffsetText(dt.off) ELSE ""]

\* position of an offset suffix in byte order: "" is a prefix of the others,
\* '+' (0x2B) sorts before '-' (0x2D)
SuffixRank(z) ==
    CASE z = "" -> 0
      [] z = "+00:00" -> 1
      [] z = "+01:00" -> 2
      [] z = "-01:00" -> 3

\* SQLite's  a <= b  on two TEXT values (BINARY collation)
TextLeq(a, b) == \/ a.w < b.w
                 \/ a.w = b.w /\ SuffixRank(a.z) <= SuffixRank(b.z)

\* UTC offset named by a suffix
SuffixOffset(z) ==
    CASE z = "+00:00" -> 0
      [] z = "+01:00" -> 60
      [] z = "-01:00" -> -60

\* the absolute instant a stored timestamp denotes:
\* datetime.fromisoformat(text).timestamp(), a naive value being host-local
Instant(t) == IF t.z = "" THEN t.w - hostOff ELSE t.w - SuffixOffset(t.z)

(****************************** the store **********************************)
\* SELECT timezone FROM guild_settings WHERE guild_id = ? ; 'UTC' when no row
TimezoneOf(g) ==
    IF g \in DOMAIN guild_settings THEN guild_settings[g].timezone ELSE "UTC"

\* the channel a command is issued in (interaction.channel_id)
ChannelOf(g) == 10 + g

\* INSERT INTO reminders: the new row gets the next AUTOINCREMENT id
Insert(row) == [i \in DOMAIN reminders \cup {nextId} |->
                   IF i = nextId THEN row ELSE reminders[i]]

\* mutant: the row is kept and marked inactive
DeleteRow_soft(id) ==
    [i \in DOMAIN reminders |->
       IF i = id THEN [reminders[i] EXCEPT !.active = FALSE] ELSE reminders[i]]

\* DELETE FROM reminders WHERE id = ?
DeleteRow(id) == [i \in DOMAIN reminders \ {id} |-> reminders[i]]

\* mutant: the row is looked up by its id alone
Found_any_guild(g, id) == id \in DOMAIN reminders

\* SELECT * FROM reminders WHERE id = ? AND guild_id = ?
Found(g, id) == id \in DOMAIN reminders /\ reminders[id].guild_id = g

\* the event loop is blocked while a tick spins in the re-arm loop
Hung == \E k \in DOMAIN tick : tick[k].pc = "hung"

(************************** target parsing *********************************)
\* the loop over targets.split(): the first word fixes target_type, a word of
\* the other kind rejects the request
RECURSIVE ParseFrom(_, _, _, _)
ParseFrom(words, i, ids, type) ==
    IF i > Len(words)
    THEN [ok |-> ids # <<>>, ids |-> ids, type |-> type, mixed |-> FALSE]
    ELSE LET w == words[i]
             is_role == w.role
         IN  IF type = "none"
             THEN ParseFrom(words, i + 1, Append(ids, w.id),
                            IF is_role THEN "role" ELSE "user")
             ELSE IF (type = "role") # is_role
                  THEN [ok |-> FALSE, ids |-> ids, type |-> type, mixed |-> TRUE]
                  ELSE ParseFrom(words, i + 1, Append(ids, w.id), type)

\* mutant: the kind of the first word is taken for the whole list
ParseTargets_by_first(words) ==
    [ok |-> words # <<>>, ids |-> [i \in 1..Len(words) |-> words[i].id],
     type |-> IF words # <<>> /\ words[1].role THEN "role" ELSE "user",
     mixed |-> FALSE]

ParseTargets(words) == ParseFrom(words, 1, <<>>, "none")

(****************************** parse_time *********************************)
\* datetime.strptime(time_str, '%H:%M') or '%I%p': minutes of the day, or -1
\* for the ValueError of an unrecognised expression
ParsedMinutes(s) ==
    CASE s = "10:30" -> 630
      [] s = "11:30" -> 690
      [] OTHER -> -1

\* floor division by the length of a day
DayOf(wall) == wall \div DayMinutes

\* parse_time(time_str, tz), the branch without 'tomorrow'; None is NoTime
NoTime == [wall |-> -1, off |-> 0, aware |-> FALSE]

\* mutant: a time of day that has passed stays on the current day
parse_time_no_roll(s, z) ==
    LET now == now_tz(z)
        hm == ParsedMinutes(s)
    IN  IF hm < 0 THEN NoTime
        ELSE [now EXCEPT !.wall = DayOf(now.wall) * DayMinutes + hm]

\* mutant: an expression strptime does not know is read as 09:00
parse_time_lenient(s, z) ==
    LET now == now_tz(z)
        hm == IF ParsedMinutes(s) < 0 THEN 540 ELSE ParsedMinutes(s)
        result == [now EXCEPT !.wall = DayOf(now.wall) * DayMinutes + hm]
    IN  IF result.wall < now.wall THEN plus_minutes(result, DayMinutes)
        ELSE result

parse_time(s, z) ==
    LET now == now_tz(z)
        hm == ParsedMinutes(s)
        result == [now EXCEPT !.wall = DayOf(now.wall) * DayMinutes + hm]
    IN  IF hm < 0 THEN NoTime
        ELSE IF result.wall < now.wall
             THEN plus_minutes(result, DayMinutes)
             ELSE result

(*************************** creation commands *****************************)
\* mutant: a DM to a role is let through
TargetsRejected_roles_by_dm(p, dm) == ~p.ok

\* the early returns after the target loop: mixed kinds, no valid target, a
\* DM asked for a role
TargetsRejected(p, dm) == ~p.ok \/ (p.type = "role" /\ dm)

\* the message of the early return that rejects the targets of a request
TargetError(p) ==
    IF p.mixed THEN "mixed_targets"
    ELSE IF p.ids = <<>> THEN "no_targets"
    ELSE "dm_to_role"

\* create_reminder_embed(interaction, reminder) on a row of SELECT * : the
\* table has 16 columns and the function unpacks 15 names, so the call
\* raises ValueError and the caller hears of an error instead of the
\* answer it was about to give
create_reminder_embed(answer) == "error_occurred"

NewRow(g, ch, p, msg, interval, unit, last, next, dm, recurring, ghost) ==
    [guild_id |-> g, channel_id |-> ch, target_ids |-> p.ids,
     target_type |-> p.type, message |-> msg, interval |-> interval,
     time_unit |-> unit, last_ping |-> last, next_ping |-> next, dm |-> dm,
     active |-> TRUE, recurring |-> recurring, ghost_ping |-> ghost]

\* /addping
add_ping(g, words, unit, interval, msg, dm) ==
    /\ ~Hung
    /\ LET now == now_tz(TimezoneOf(g))
           p == ParseTargets(words)
           interval_minutes == interval * TIME_UNITS[unit]
           next_ping == astimezone_utc(plus_minutes(now, interval_minutes))
           channel_id == IF dm THEN NoChannel ELSE ChannelOf(g)
       IN  IF TargetsRejected(p, dm)
           THEN /\ reply' = TargetError(p)
                /\ UNCHANGED <<reminders, nextId>>
           ELSE /\ reminders' = Insert(NewRow(g, channel_id, p, msg, interval, unit,
                                   isoformat(astimezone_utc(now)),
                                   isoformat(next_ping), dm, TRUE, FALSE))
                /\ nextId' = nextId + 1
                /\ reply' = "created"
    /\ UNCHANGED <<clock, hostOff, guild_settings, tick, confirmView, ticks,
                   log, lost, templates, aborted, schema,
                   booted>>

\* /ghostping (the caller is the bot owner)
ghost_ping(g, words, unit, interval, msg) ==
    /\ ~Hung
    /\ LET now == now_tz(TimezoneOf(g))
           p == ParseTargets(words)
           interval_minutes == interval * TIME_UNITS[unit]
           next_ping == astimezone_utc(plus_minutes(now, interval_minutes))
       IN  IF ~p.ok
           THEN /\ reply' = TargetError(p)
                /\ UNCHANGED <<reminders, nextId>>
           ELSE /\ reminders' = Insert(NewRow(g, ChannelOf(g), p, msg, interval, unit,
                                   isoformat(astimezone_utc(now)),
                                   isoformat(next_ping), FALSE, TRUE, TRUE))
                /\ nextId' = nextId + 1
                /\ reply' = "created"
    /\ UNCHANGED <<clock, hostOff, guild_settings, tick, confirmView, ticks,
                   log, lost, templates, aborted, schema,
                   booted>>

\* /addreminder
add_reminder(g, words, time, msg, repeat, dm) ==
    /\ ~Hung
    /\ LET tz == TimezoneOf(g)
           now == now_tz(tz)
           target_time == parse_time(time, tz)
           p == ParseTargets(words)
           channel_id == IF dm THEN NoChannel ELSE ChannelOf(g)
           interval == CASE repeat = "never" -> target_time.wall - now.wall
                         [] repeat = "daily" -> 1440
                         [] OTHER -> 10080
       IN  IF target_time = NoTime
           THEN /\ reply' = "invalid_time"
                /\ UNCHANGED <<reminders, nextId>>
           ELSE IF TargetsRejected(p, dm)
           THEN /\ reply' = TargetError(p)
                /\ UNCHANGED <<reminders, nextId>>
           ELSE /\ reminders' = Insert(NewRow(g, channel_id, p, msg, interval,
                                   "minutes", isoformat(now),
                                   isoformat(target_time), dm,
                                   repeat # "never", FALSE))
                /\ nextId' = nextId + 1
                /\ reply' = create_reminder_embed("created")
    /\ UNCHANGED <<clock, hostOff, guild_settings, tick, confirmView, ticks,
                   log, lost, templates, aborted, schema,
                   booted>>

\* mutant: the name is stored without asking pytz
set_timezone_unchecked(g, name) ==
    /\ ~Hung
    /\ reply' = "timezone_set"
    /\ guild_settings' =
          [h \in DOMAIN guild_settings \cup {g} |->
             IF h # g THEN guild_settings[h]
             ELSE IF g \in DOMAIN guild_settings
                  THEN [guild_settings[g] EXCEPT !.timezone = name]
                  ELSE [default_channel_id |-> NoChannel, timezone |-> name]]
    /\ UNCHANGED <<clock, hostOff, reminders, nextId, tick, confirmView, ticks,
                   log, lost, templates, aborted, schema,
                   booted>>

\* /settimezone: pytz.timezone(name) raises for an unknown name
set_timezone(g, name) ==
    /\ ~Hung
    /\ IF name \notin Zones
       THEN /\ reply' = "invalid_timezone"
            /\ UNCHANGED guild_settings
       ELSE /\ reply' = "timezone_set"
            /\ guild_settings' =
              [h \in DOMAIN guild_settings \cup {g} |->
                 IF h # g THEN guild_settings[h]
                 ELSE IF g \in DOMAIN guild_settings
                      THEN [guild_settings[g] EXCEPT !.timezone = name]
                      ELSE [default_channel_id |-> NoChannel, timezone |-> name]]
    /\ UNCHANGED <<clock, hostOff, reminders, nextId, tick, confirmView, ticks,
                   log, lost, templates, aborted, schema,
                   booted>>

\* mutant: INSERT OR REPLACE, the row is written anew
set_channel_replace(g, channel) ==
    /\ ~Hung
    /\ reply' = "channel_set"
    /\ guild_settings' =
          [h \in DOMAIN guild_settings \cup {g} |->
             IF h # g THEN guild_settings[h]
             ELSE [default_channel_id |-> channel, timezone |-> "UTC"]]
    /\ UNCHANGED <<clock, hostOff, reminders, nextId, tick, confirmView, ticks,
                   log, lost, templates, aborted, schema,
                   booted>>

\* /setchannel: INSERT ... ON CONFLICT(guild_id) DO UPDATE SET
\* default_channel_id; a new row takes the column default of timezone
set_channel(g, channel) ==
    /\ ~Hung
    /\ reply' = "channel_set"
    /\ guild_settings' =
          [h \in DOMAIN guild_settings \cup {g} |->
             IF h # g THEN guild_settings[h]
             ELSE IF g \in DOMAIN guild_settings
                  THEN [guild_settings[g] EXCEPT !.default_channel_id = channel]
                  ELSE [default_channel_id |-> channel, timezone |-> "UTC"]]
    /\ UNCHANGED <<clock, hostOff, reminders, nextId, tick, confirmView, ticks,
                   log, lost, templates, aborted, schema,
                   booted>>

(******************************* templates *********************************)
\* mutant: the table has no UNIQUE(guild_id, name)
save_template_no_unique(g, name, message, time, targets) ==
    /\ ~Hung
    /\ templates' = Append(templates, [guild_id |-> g, name |-> name,
                                       message |-> message, time |-> time,
                                       targets |-> targets])
    /\ reply' = "template_saved"
    /\ UNCHANGED <<clock, hostOff, guild_settings, reminders, nextId, tick,
                   confirmView, ticks, log, lost, aborted, schema,
                   booted>>

\* /savetemplate: the INSERT raises sqlite3.IntegrityError when the guild
\* already has a template of that name
save_template(g, name, message, time, targets) ==
    /\ ~Hung
    /\ IF \E i \in DOMAIN templates :
             templates[i].guild_id = g /\ templates[i].name = name
       THEN reply' = "template_exists" /\ UNCHANGED templates
       ELSE /\ templates' = Append(templates, [guild_id |-> g, name |-> name,
                                               message |-> message,
                                               time |-> time,
                                               targets |-> targets])
            /\ reply' = "template_saved"
    /\ UNCHANGED <<clock, hostOff, guild_settings, reminders, nextId, tick,
                   confirmView, ticks, log, lost, aborted, schema,
                   booted>>

\* template[i] of a row of SELECT * FROM reminder_templates; the columns are
\* id, guild_id, name, message, time, targets and the index starts at 0
Column(n, i) ==
    CASE i = 0 -> n
      [] i = 1 -> templates[n].guild_id
      [] i = 2 -> templates[n].name
      [] i = 3 -> templates[n].message
      [] i = 4 -> templates[n].time
      [] i = 5 -> templates[n].targets

\* targets.split() of a text: the words that are mentions or ids
Words(text) ==
    CASE text = "<@1>" -> <<User(1)>>
      [] text = "<@&2>" -> <<Role(2)>>
      [] OTHER -> <<>>

\* the rows SELECT * FROM reminder_templates WHERE guild_id = ? AND name = ?
\* returns
TemplateRows(g, name) ==
    {i \in DOMAIN templates :
        templates[i].guild_id = g /\ templates[i].name = name}

\* /usetemplate.  The last statement calls add_reminder, the object the
\* command decorator returned: callable is whether the library lets that
\* object be called like the function it wraps; when it does not, the
\* TypeError reaches on_app_command_error.
use_template(g, template_name, time, targets, dm, callable) ==
    IF TemplateRows(g, template_name) = {}
    THEN /\ ~Hung
         /\ reply' = "template_not_found"
         /\ UNCHANGED <<clock, hostOff, guild_settings, reminders, nextId,
                        tick, confirmView, ticks, log, lost, templates,
                        aborted, schema,
                   booted>>
    ELSE LET template == CHOOSE i \in TemplateRows(g, template_name) : TRUE
             final_time == IF time # "" THEN time ELSE Column(template, 3)
             final_targets == IF targets # "" THEN targets
                              ELSE Column(template, 4)
         IN  IF final_time = ""
             THEN /\ ~Hung
                  /\ reply' = "no_time_specified"
                  /\ UNCHANGED <<clock, hostOff, guild_settings, reminders,
                                 nextId, tick, confirmView, ticks, log, lost,
                                 templates, aborted, schema,
                   booted>>
             ELSE IF final_targets = ""
             THEN /\ ~Hung
                  /\ reply' = "no_targets_specified"
                  /\ UNCHANGED <<clock, hostOff, guild_settings, reminders,
                                 nextId, tick, confirmView, ticks, log, lost,
                                 templates, aborted, schema,
                   booted>>
             ELSE IF ~callable
             THEN /\ ~Hung
                  /\ reply' = "error_occurred"
                  /\ UNCHANGED <<clock, hostOff, guild_settings, reminders,
                                 nextId, tick, confirmView, ticks, log, lost,
                                 templates, aborted, schema,
                   booted>>
             ELSE add_reminder(g, Words(final_targets), final_time,
                               Column(template, 2), Column(template, 5), dm)

(************************** lifecycle commands *****************************)
\* UPDATE reminders SET ... WHERE id = ? : no row, no change
Update(id, row) == [i \in DOMAIN reminders |->
                      IF i = id THEN row ELSE reminders[i]]

SetPaused(row) == [row EXCEPT !.active = FALSE]

\* mutant: the active flag of the row is not looked at
pause_ping_no_check(g, id) ==
    /\ ~Hung
    /\ IF ~Found(g, id)
       THEN reply' = "not_found" /\ UNCHANGED reminders
       ELSE /\ reminders' = Update(id, SetPaused(reminders[id]))
            /\ reply' = create_reminder_embed("paused")
    /\ UNCHANGED <<clock, hostOff, guild_settings, nextId, tick, confirmView,
                   ticks, log, lost, templates, aborted, schema,
                   booted>>

\* /pauseping with a reminder id
pause_ping(g, id) ==
    /\ ~Hung
    /\ IF ~Found(g, id)
       THEN reply' = "not_found" /\ UNCHANGED reminders
       ELSE IF ~reminders[id].active
       THEN reply' = "already_paused" /\ UNCHANGED reminders
       ELSE /\ reminders' = Update(id, SetPaused(reminders[id]))
            /\ reply' = create_reminder_embed("paused")
    /\ UNCHANGED <<clock, hostOff, guild_settings, nextId, tick, confirmView,
                   ticks, log, lost, templates, aborted, schema,
                   booted>>

\* the next_ping resume_ping writes: datetime.now() + the stored cadence
resume_next_ping(row) ==
    isoformat(plus_minutes(now_naive, row.interval * TIME_UNITS[row.time_unit]))

\* /resumeping with a reminder id
resume_ping(g, id) ==
    /\ ~Hung
    /\ IF ~Found(g, id)
       THEN reply' = "not_found" /\ UNCHANGED reminders
       ELSE IF reminders[id].active
       THEN reply' = "already_active" /\ UNCHANGED reminders
       ELSE LET next_ping == resume_next_ping(reminders[id])
                resumed == [reminders[id] EXCEPT !.active = TRUE,
                                                 !.next_ping = next_ping]
            IN  /\ reminders' = Update(id, resumed)
                /\ reply' = create_reminder_embed("resumed")
    /\ UNCHANGED <<clock, hostOff, guild_settings, nextId, tick, confirmView,
                   ticks, log, lost, templates, aborted, schema,
                   booted>>

\* /pauseall: shows the ConfirmView when the guild has an active reminder
pause_all(g) ==
    /\ ~Hung
    /\ IF \E i \in DOMAIN reminders :
             reminders[i].guild_id = g /\ reminders[i].active
       THEN confirmView' = confirmView \cup {g} /\ reply' = "confirm_action"
       ELSE reply' = "no_active" /\ UNCHANGED confirmView
    /\ UNCHANGED <<clock, hostOff, guild_settings, reminders, nextId, tick,
                   ticks, log, lost, templates, aborted, schema,
                   booted>>

\* mutant: the UPDATE of the confirmation has no guild in its WHERE clause
pause_all_confirm_every_guild(g) ==
    /\ ~Hung
    /\ g \in confirmView
    /\ reminders' = [i \in DOMAIN reminders |->
                       IF reminders[i].active
                       THEN SetPaused(reminders[i]) ELSE reminders[i]]
    /\ confirmView' = confirmView \ {g}
    /\ reply' = "all_paused"
    /\ UNCHANGED <<clock, hostOff, guild_settings, nextId, tick, ticks,
                   log, lost, templates, aborted, schema,
                   booted>>

\* ConfirmView.confirm
pause_all_confirm(g) ==
    /\ ~Hung
    /\ g \in confirmView
    /\ reminders' = [i \in DOMAIN reminders |->
                       IF reminders[i].guild_id = g /\ reminders[i].active
                       THEN SetPaused(reminders[i]) ELSE reminders[i]]
    /\ confirmView' = confirmView \ {g}
    /\ reply' = "all_paused"
    /\ UNCHANGED <<clock, hostOff, guild_settings, nextId, tick, ticks,
                   log, lost, templates, aborted, schema,
                   booted>>

\* DeleteView.handle_delete of /removereminder and /removeping
handle_delete(g, rid) ==
    /\ ~Hung
    /\ IF Found(g, rid)
       THEN reminders' = DeleteRow(rid) /\ reply' = "deleted"
       ELSE reply' = "not_found" /\ UNCHANGED reminders
    /\ UNCHANGED <<clock, hostOff, guild_settings, nextId, tick, confirmView,
                   ticks, log, lost, templates, aborted, schema,
                   booted>>

(******************************** /list ************************************)
\* the ids of S in the order of ORDER BY next_ping ASC: next_ping is compared
\* as TEXT; rows with equal text are taken in rowid order
RECURSIVE OrderByNextPing(_)
OrderByNextPing(S) ==
    IF S = {} THEN <<>>
    ELSE LET first == CHOOSE i \in S : \A j \in S :
                         /\ TextLeq(reminders[i].next_ping, reminders[j].next_ping)
                         /\ TextLeq(reminders[j].next_ping, reminders[i].next_ping)
                               => i <= j
         IN  <<first>> \o OrderByNextPing(S \ {first})

\* SELECT * FROM reminders WHERE guild_id = ? AND recurring = ?
\* ORDER BY next_ping ASC
ListQuery(g, recurring) ==
    OrderByNextPing({i \in DOMAIN reminders :
                       /\ reminders[i].guild_id = g
                       /\ reminders[i].recurring = recurring})

\* ListView.get_embed on the rows of the page: each row of SELECT * has the
\* 16 columns of the table and is unpacked into 15 names, so a page with a
\* row raises ValueError
get_embed(rows) == IF rows = <<>> THEN "listed" ELSE "error_occurred"

\* /list type=pings (recurring) or type=reminders
list_reminders(g, recurring) ==
    /\ ~Hung
    /\ LET rows == ListQuery(g, recurring)
       IN  reply' = IF rows = <<>> THEN "none_found" ELSE get_embed(rows)
    /\ UNCHANGED <<clock, hostOff, guild_settings, reminders, nextId, tick,
                   confirmView, ticks, log, lost, templates, aborted, schema,
                   booted>>

(***************************** the scheduler *******************************)
IdleTick == [pc |-> "idle", now |-> NoTime, batch |-> <<>>, idx |-> 0,
             no |-> 0, out |-> <<>>]

\* mutant: on_ready never sees the loop it started
is_running_never == FALSE

\* check_reminders.is_running()
is_running == DOMAIN tick # {}

\* check_reminders.start(): one more loop task
start == [k \in DOMAIN tick \cup {Cardinality(DOMAIN tick) + 1} |->
            IF k \in DOMAIN tick THEN tick[k] ELSE IdleTick]

\* PingurBot.on_ready
on_ready ==
    /\ ~Hung
    /\ IF ~is_running THEN tick' = start ELSE UNCHANGED tick
    /\ UNCHANGED <<clock, hostOff, guild_settings, reminders, nextId,
                   confirmView, reply, ticks, log, lost, templates, aborted, schema,
                   booted>>

\* WHERE active = 1 AND next_ping <= ?
Due(row, now_text) == row.active /\ TextLeq(row.next_ping, now_text)

\* the rows the due query returns, in rowid order
DueBatch(now_text) ==
    LET ids == SelectSeq([i \in 1..(nextId - 1) |-> i],
                         LAMBDA i : i \in DOMAIN reminders
                                    /\ Due(reminders[i], now_text))
    IN  [j \in 1..Len(ids) |-> [id |-> ids[j], row |-> reminders[ids[j]]]]

\* an iteration of the loop begins: snapshot of now, then the due query
TickBegin(k) ==
    /\ ~Hung
    /\ k \in DOMAIN tick
    /\ tick[k].pc = "idle"
    /\ LET now == now_tz("UTC")
       IN  tick' = [tick EXCEPT ![k] =
                      [pc |-> "loop", now |-> now,
                       batch |-> DueBatch(isoformat(now)),
                       idx |-> 1, no |-> ticks + 1, out |-> <<>>]]
    /\ ticks' = ticks + 1
    /\ UNCHANGED <<clock, hostOff, guild_settings, reminders, nextId,
                   confirmView, reply, log, lost, templates, aborted, schema,
                   booted>>

\* mutant: an error of the due query ends the loop task
AfterQueryError_stops(k) == [j \in DOMAIN tick \ {k} |-> tick[j]]

\* what the outer handler of check_reminders leaves of the task when the
\* connection or the due query raised: it logs, the iteration returns and
\* the loop sleeps until its next round
AfterQueryError(k) == [tick EXCEPT ![k] = IdleTick]

\* an iteration of the loop begins and aiosqlite.connect or the due query
\* raises
TickAbort(k) ==
    /\ ~Hung
    /\ k \in DOMAIN tick
    /\ tick[k].pc = "idle"
    /\ tick' = AfterQueryError(k)
    /\ ticks' = ticks + 1
    /\ aborted' = aborted \cup {ticks + 1}
    /\ UNCHANGED <<clock, hostOff, guild_settings, reminders, nextId,
                   confirmView, reply, log, lost, templates, schema, booted>>

\* mutant: every stored target is taken as resolved
Resolved_all(row, res) == row.target_ids

\* the targets of a row that resolve, in stored order
Resolved(row, res) == SelectSeq(row.target_ids, LAMBDA t : t \in res)

FirstN(seq, n) == {seq[j] : j \in 1..n}

\* history: the tick t handed the current row's message to the targets got
Entry(t, got) ==
    [id |-> t.batch[t.idx].id, tick |-> t.no, at |-> t.now.wall,
     occ |-> t.batch[t.idx].row.next_ping, got |-> got, committed |-> FALSE,
     kept |-> FALSE]

\* history: the post of a ghost ping stayed in the channel
Kept(e) == [e EXCEPT !.kept = TRUE]

Delivered(t, got) == IF got = {} THEN log ELSE log \cup {Entry(t, got)}

\* continue: the for loop goes to the next row
Continue(t, outcome) == [t EXCEPT !.pc = "loop", !.idx = @ + 1,
                                  !.out = Append(@, outcome)]

\* mutant: a send error leaves the for loop
AfterSendError_abort(t) == [t EXCEPT !.pc = "loop", !.idx = Len(t.batch) + 1,
                                     !.out = Append(@, "send_error")]

\* what happens when a send raises (discord.Forbidden or any other
\* exception): the handlers at the end of the inner try only log
AfterSendError(t) == Continue(t, "send_error")

\* mutant: a failed delete of the post is handled like a failed send
AfterDeleteError_escalates(t) == AfterSendError(t)

\* what happens when sent_message.delete() raises: the try around it logs
\* and the row goes on to its update
AfterDeleteError(t) == [t EXCEPT !.pc = "sent"]

\* mutant: a row without resolvable targets is retired or pushed one
\* interval on
DispatchStore_skip_consumes(t, outcome) ==
    IF outcome = "no_targets"
    THEN [i \in DOMAIN reminders |->
            IF i # t.batch[t.idx].id THEN reminders[i]
            ELSE IF reminders[i].recurring
                 THEN [reminders[i] EXCEPT
                         !.last_ping = isoformat(t.now),
                         !.next_ping = isoformat(plus_minutes(t.now,
                            reminders[i].interval * TIME_UNITS[reminders[i].time_unit]))]
                 ELSE [reminders[i] EXCEPT !.active = FALSE,
                                           !.last_ping = isoformat(t.now)]]
    ELSE reminders

\* mutant: last_ping is written before the send is awaited
DispatchStore_early(t, outcome) ==
    IF outcome = "sent"
    THEN [i \in DOMAIN reminders |->
            IF i = t.batch[t.idx].id
            THEN [reminders[i] EXCEPT !.last_ping = isoformat(t.now)]
            ELSE reminders[i]]
    ELSE reminders

\* the store after lines 1116-1153 ran for the current row with the given
\* outcome: none of their branches writes it
DispatchStore(t, outcome) == reminders

\* lines 1116-1153 for the current row of the batch: guild and target
\* lookup, then the sends.  guildOk, res, chanOk and sent are what the
\* platform answers: whether the guild resolves, which targets resolve,
\* whether the channel resolves, how many sends succeed, whether the post of
\* a ghost ping could be deleted again.
TickDispatch(k, guildOk, res, chanOk, sent, retracted) ==
    /\ ~Hung
    /\ k \in DOMAIN tick
    /\ tick[k].pc = "loop"
    /\ tick[k].idx <= Len(tick[k].batch)
    /\ LET t == tick[k]
           row == t.batch[t.idx].row
           targets == Resolved(row, res)
           all == FirstN(targets, Len(targets))
           posted == /\ guildOk /\ targets # <<>> /\ chanOk /\ sent = 1
                     /\ ~(row.dm /\ row.target_type = "user")
       IN  /\ res \subseteq FirstN(row.target_ids, Len(row.target_ids))
           /\ retracted \/ (row.ghost_ping /\ posted)
           /\ IF ~guildOk
              THEN /\ sent = 0 /\ chanOk /\ res = {}
                   /\ tick' = [tick EXCEPT ![k] = Continue(t, "no_guild")]
                   /\ reminders' = DispatchStore(t, "no_guild")
                   /\ UNCHANGED log
              ELSE IF targets = <<>>
              THEN /\ sent = 0 /\ chanOk
                   /\ tick' = [tick EXCEPT ![k] = Continue(t, "no_targets")]
                   /\ reminders' = DispatchStore(t, "no_targets")
                   /\ UNCHANGED log
              ELSE IF row.dm /\ row.target_type = "user"
              THEN \* one DM per target, the first failure ends them
                   /\ chanOk
                   /\ sent <= Len(targets)
                   /\ log' = Delivered(t, FirstN(targets, sent))
                   /\ IF sent < Len(targets)
                      THEN /\ tick' = [tick EXCEPT ![k] = AfterSendError(t)]
                           /\ reminders' = DispatchStore(t, "send_error")
                      ELSE /\ tick' = [tick EXCEPT ![k].pc = "sent"]
                           /\ reminders' = DispatchStore(t, "sent")
              ELSE IF ~chanOk
              THEN \* no channel: nothing is sent, the update still follows
                   /\ sent = 0
                   /\ tick' = [tick EXCEPT ![k].pc = "sent"]
                   /\ reminders' = DispatchStore(t, "sent")
                   /\ log' = log \cup {Entry(t, {})}
              ELSE \* one channel post mentioning every target
                   /\ sent <= 1
                   /\ IF sent = 0
                      THEN /\ tick' = [tick EXCEPT ![k] = AfterSendError(t)]
                           /\ reminders' = DispatchStore(t, "send_error")
                           /\ UNCHANGED log
                      ELSE IF row.ghost_ping /\ ~retracted
                      THEN /\ tick' = [tick EXCEPT ![k] = AfterDeleteError(t)]
                           /\ reminders' = DispatchStore(t, "sent")
                           /\ log' = log \cup {Kept(Entry(t, all))}
                      ELSE /\ tick' = [tick EXCEPT ![k].pc = "sent"]
                           /\ reminders' = DispatchStore(t, "sent")
                           /\ log' = Delivered(t, all)
    /\ UNCHANGED <<clock, hostOff, guild_settings, nextId, confirmView, reply,
                   ticks, lost, templates, aborted, schema,
                   booted>>

\* next_ping_time = now; while next_ping_time <= now: next_ping_time += interval
RECURSIVE advance_past(_, _, _)
advance_past(next_ping_time, now, interval_minutes) ==
    IF next_ping_time.wall <= now.wall
    THEN advance_past(plus_minutes(next_ping_time, interval_minutes), now,
                      interval_minutes)
    ELSE next_ping_time

\* mutant: one interval added to the stored next_ping, without the loop
rearm_single_add(row, now) ==
    [now EXCEPT !.wall = Instant(row.next_ping)
                         + row.interval * TIME_UNITS[row.time_unit]]

\* the re-armed instant of a fire at now; row is the fetched row
rearm(row, now) ==
    advance_past(now, now, row.interval * TIME_UNITS[row.time_unit])

\* mutant: the UPDATE takes the time of day when it runs
Fired_reads_clock(cur, row, now) ==
    IF row.recurring
    THEN [cur EXCEPT !.last_ping = isoformat(now_tz("UTC")),
                     !.next_ping = isoformat(rearm(row, now_tz("UTC")))]
    ELSE [cur EXCEPT !.active = FALSE, !.last_ping = isoformat(now_tz("UTC"))]

\* mutant: the UPDATE writes the whole fetched row back
Fired_from_fetched(cur, row, now) ==
    IF row.recurring
    THEN [row EXCEPT !.last_ping = isoformat(now),
                     !.next_ping = isoformat(rearm(row, now))]
    ELSE [row EXCEPT !.active = FALSE, !.last_ping = isoformat(now)]

\* the row after the UPDATE of a fire; row is the fetched row, cur the stored
Fired(cur, row, now) ==
    IF row.recurring
    THEN [cur EXCEPT !.last_ping = isoformat(now),
                     !.next_ping = isoformat(rearm(row, now))]
    ELSE [cur EXCEPT !.active = FALSE, !.last_ping = isoformat(now)]

MarkCommitted(t) ==
    {IF e.id = t.batch[t.idx].id /\ e.tick = t.no
     THEN [e EXCEPT !.committed = TRUE] ELSE e : e \in log}

\* lines 1155-1177 for the current row: the UPDATE and the commit.  dbOk is
\* whether the store executes them.
TickCommit(k, dbOk) ==
    /\ ~Hung
    /\ k \in DOMAIN tick
    /\ tick[k].pc = "sent"
    /\ LET t == tick[k]
           id == t.batch[t.idx].id
           row == t.batch[t.idx].row
           interval_minutes == row.interval * TIME_UNITS[row.time_unit]
       IN  IF row.recurring /\ interval_minutes = 0
           THEN \* the while loop never leaves
                /\ dbOk
                /\ tick' = [tick EXCEPT ![k].pc = "hung"]
                /\ UNCHANGED <<reminders, log>>
           ELSE IF row.recurring /\ interval_minutes < 0
           THEN \* the while loop runs into OverflowError
                /\ dbOk
                /\ tick' = [tick EXCEPT ![k] = Continue(t, "overflow")]
                /\ UNCHANGED <<reminders, log>>
           ELSE IF ~dbOk
           THEN \* the UPDATE or the commit raises
                /\ tick' = [tick EXCEPT ![k] = Continue(t, "update_error")]
                /\ UNCHANGED <<reminders, log>>
           ELSE /\ reminders' = Update(id, Fired(reminders[id], row, t.now))
                /\ log' = MarkCommitted(t)
                /\ tick' = [tick EXCEPT ![k] = Continue(t, "fired")]
    /\ UNCHANGED <<clock, hostOff, guild_settings, nextId, confirmView, reply,
                   ticks, lost, templates, aborted, schema,
                   booted>>

\* the for loop is exhausted: the iteration ends
TickEnd(k) ==
    /\ k \in DOMAIN tick
    /\ tick[k].pc = "loop"
    /\ tick[k].idx > Len(tick[k].batch)
    /\ tick' = [tick EXCEPT ![k] = IdleTick]
    /\ UNCHANGED <<clock, hostOff, guild_settings, reminders, nextId,
                   confirmView, reply, ticks, log, lost, templates, aborted, schema,
                   booted>>

\* history: the deliveries whose UPDATE has not run yet
InFlight ==
    {e \in log : \E k \in DOMAIN tick :
        /\ tick[k].pc = "sent"
        /\ e.tick = tick[k].no
        /\ e.id = tick[k].batch[tick[k].idx].id
        /\ e.got # {}}

\* the process dies and is started again: everything in memory is lost
Crash ==
    /\ tick # <<>>
    /\ tick' = <<>>
    /\ confirmView' = {}
    /\ lost' = lost \cup InFlight
    /\ UNCHANGED <<clock, hostOff, guild_settings, reminders, nextId, reply,
                   ticks, log, templates, aborted, schema,
                   booted>>

\* time passes
Advance(d) ==
    /\ clock' = clock + d
    /\ UNCHANGED <<hostOff, guild_settings, reminders, nextId, tick,
                   confirmView, reply, ticks, log, lost, templates, aborted, schema,
                   booted>>

(***************************** setup_database ******************************)
\* the store with the three relations of the current version
CurrentSchema ==
    [reminders |-> "current", guild_settings |-> TRUE,
     reminder_templates |-> TRUE]

\* a store without any relation
EmptySchema ==
    [reminders |-> "absent", guild_settings |-> FALSE,
     reminder_templates |-> FALSE]

\* PRAGMA table_info(reminders) lists a column ghost_ping; the PRAGMA
\* returns no rows for a table that does not exist
has_ghost_ping == schema.reminders = "current"

\* a row as the table of the earlier version holds it
WithoutGhostPing(row) == [c \in DOMAIN row \ {"ghost_ping"} |-> row[c]]

\* INSERT INTO reminders (...) SELECT ..., 0, created_at FROM reminders_backup
Migrated(row) ==
    [c \in DOMAIN row \cup {"ghost_ping"} |->
       IF c = "ghost_ping" THEN FALSE ELSE row[c]]

\* setup_database under its db_operation wrapper, as setup_hook awaits it.
\* Without a ghost_ping column the migration runs; its first statement,
\* CREATE TABLE reminders_backup AS SELECT * FROM reminders, raises when there
\* is no reminders table, the restore (DROP TABLE IF EXISTS reminders, RENAME
\* of a backup that does not exist) raises again and is logged, the error is
\* raised anew and the wrapper logs it and returns None: the statements that
\* create guild_settings and reminder_templates are not reached.
setup_database ==
    /\ ~booted
    /\ IF ~has_ghost_ping
       THEN IF schema.reminders = "absent"
            THEN UNCHANGED <<schema, reminders>>
            ELSE /\ reminders' = [i \in DOMAIN reminders |->
                                    Migrated(reminders[i])]
                 /\ schema' = CurrentSchema
       ELSE /\ schema' = CurrentSchema
            /\ UNCHANGED reminders
    /\ booted' = TRUE
    /\ UNCHANGED <<clock, hostOff, guild_settings, nextId, tick, confirmView,
                   reply, ticks, log, lost, templates, aborted>>

(**************************** specification ********************************)
Init ==
    /\ clock = StartClock
    /\ hostOff \in HostOffsets
    /\ guild_settings = <<>>
    /\ reminders = <<>>
    /\ nextId = 1
    /\ tick = <<>>
    /\ confirmView = {}
    /\ reply = "none"
    /\ ticks = 0
    /\ log = {}
    /\ lost = {}
    /\ templates = <<>>
    /\ aborted = {}
    /\ schema = CurrentSchema
    /\ booted = TRUE

Tasks == {1, 2}

AddPing(max, inputs) ==
    /\ nextId <= max
    /\ \E g \in Guilds, words \in TargetInputs, msg \in Messages, c \in inputs :
          add_ping(g, words, c[1], c[2], msg, c[3])

GhostPing(max) ==
    /\ nextId <= max
    /\ \E g \in Guilds, words \in TargetInputs, msg \in Messages :
          ghost_ping(g, words, "minutes", 1, msg)

AddReminder(max) ==
    /\ nextId <= max
    /\ \E g \in Guilds, words \in TargetInputs, msg \in Messages,
          time \in TimeInputs, repeat \in RepeatInputs :
          add_reminder(g, words, time, msg, repeat, FALSE)

\* the timezone is read by the creation commands only: it is set while a
\* reminder can still be created
SetTimezone(max) ==
    /\ nextId <= max
    /\ \E g \in Guilds, name \in ZoneInputs : set_timezone(g, name)

PausePing(max) == \E g \in Guilds, id \in 1..max : pause_ping(g, id)

ResumePing(max) == \E g \in Guilds, id \in 1..max : resume_ping(g, id)

Delete(max) == \E g \in Guilds, id \in 1..max : handle_delete(g, id)

PauseAll == \E g \in Guilds : pause_all(g)

PauseAllConfirm == \E g \in Guilds : pause_all_confirm(g)

Begin == ticks < MaxTicks /\ \E k \in Tasks : TickBegin(k)

\* whether a ghost ping's post could be deleted changes nothing the program
\* keeps; the ghost specification draws it
Dispatch ==
    \E k \in Tasks, guildOk \in BOOLEAN, res \in SUBSET {1, 2},
       chanOk \in BOOLEAN, sent \in 0..2 :
       TickDispatch(k, guildOk, res, chanOk, sent, TRUE)

Commit == \E k \in Tasks, dbOk \in BOOLEAN : TickCommit(k, dbOk)

End == \E k \in Tasks : TickEnd(k)

Tock == \E d \in Steps : clock + d <= MaxClock /\ Advance(d)

\* one reminder, every way of creating it, both host timezones
Next ==
    \/ AddPing(MaxReminders, PingInputs) \/ GhostPing(MaxReminders)
    \/ AddReminder(MaxReminders) \/ SetTimezone(MaxReminders)
    \/ PausePing(MaxReminders) \/ ResumePing(MaxReminders)
    \/ Delete(MaxReminders)
    \/ on_ready \/ Begin \/ Dispatch \/ Commit \/ End
    \/ Tock

Spec == Init /\ [][Next]_vars

\* batches of several reminders: interval pings in a UTC guild on a UTC host
InitBatch == Init /\ hostOff = 0

NextBatch ==
    \/ AddPing(BatchReminders, BatchInputs)
    \/ PausePing(BatchReminders) \/ PauseAll \/ PauseAllConfirm
    \/ on_ready \/ Begin \/ Dispatch \/ Commit \/ End
    \/ Tock

SpecBatch == InitBatch /\ [][NextBatch]_vars

\* the process may die and be started again at any moment: one reminder in
\* a UTC guild on a UTC host
NextCrash ==
    \/ AddPing(MaxReminders, BatchInputs) \/ AddReminder(MaxReminders)
    \/ PausePing(MaxReminders) \/ ResumePing(MaxReminders)
    \/ on_ready \/ Begin \/ Dispatch \/ Commit \/ End
    \/ Crash \/ Tock

SpecCrash == InitBatch /\ [][NextCrash]_vars

\* the store may fail when an iteration opens it: one reminder in a UTC
\* guild on a UTC host
Abort == ticks < MaxTicks /\ \E k \in Tasks : TickAbort(k)

NextStoreFailure ==
    \/ AddPing(MaxReminders, BatchInputs)
    \/ on_ready \/ Begin \/ Abort \/ Dispatch \/ Commit \/ End
    \/ Tock

SpecStoreFailure == InitBatch /\ [][NextStoreFailure]_vars

\* ghost pings whose post may fail to be deleted: a UTC guild on a UTC host
GhostDispatch ==
    \E k \in Tasks, guildOk \in BOOLEAN, res \in SUBSET {1, 2},
       chanOk \in BOOLEAN, sent \in 0..2, retracted \in BOOLEAN :
       TickDispatch(k, guildOk, res, chanOk, sent, retracted)

NextGhost ==
    \/ GhostPing(BatchReminders)
    \/ on_ready \/ Begin \/ GhostDispatch \/ Commit \/ End
    \/ Tock

SpecGhost == InitBatch /\ [][NextGhost]_vars

\* one-time reminders deleted while the scheduler runs: a UTC guild on a
\* UTC host
DeleteTimes == {"10:30"}

DeleteAddReminder ==
    /\ nextId <= BatchReminders
    /\ \E g \in Guilds, words \in TargetInputs, msg \in Messages,
          time \in DeleteTimes :
          add_reminder(g, words, time, msg, "never", FALSE)

NextDelete ==
    \/ DeleteAddReminder
    \/ PausePing(BatchReminders) \/ Delete(BatchReminders)
    \/ on_ready \/ Begin \/ Dispatch \/ Commit \/ End
    \/ Tock

SpecDelete == InitBatch /\ [][NextDelete]_vars

\* the commands alone, with requests of every kind: users, roles, mixed and
\* empty target lists, DMs, every unit, unknown times and timezones
CommandAddPing ==
    /\ nextId <= CommandReminders
    /\ \E g \in Guilds, words \in CommandTargets, msg \in Messages,
          c \in CommandPings : add_ping(g, words, c[1], c[2], msg, c[3])

CommandGhostPing ==
    /\ nextId <= CommandReminders
    /\ \E g \in Guilds, words \in CommandTargets, msg \in Messages,
          c \in CommandPings : ghost_ping(g, words, c[1], c[2], msg)

CommandAddReminder ==
    /\ nextId <= CommandReminders
    /\ \E g \in Guilds, words \in CommandTargets, msg \in Messages,
          time \in TimeInputs, repeat \in CommandRepeats, dm \in BOOLEAN :
          add_reminder(g, words, time, msg, repeat, dm)

CommandTock == \E d \in Steps : clock + d <= CommandMaxClock /\ Advance(d)

CommandList == \E g \in Guilds, recurring \in BOOLEAN : list_reminders(g, recurring)

NextCommands ==
    \/ CommandAddPing \/ CommandGhostPing \/ CommandAddReminder
    \/ CommandList
    \/ SetTimezone(CommandReminders)
    \/ PausePing(CommandReminders) \/ ResumePing(CommandReminders)
    \/ Delete(CommandReminders)
    \/ CommandTock

SpecCommands == InitBatch /\ [][NextCommands]_vars

\* templates of two guilds and the reminders made from them
SaveTemplate ==
    /\ Len(templates) < MaxTemplates
    /\ \E g \in TemplateGuilds, name \in TemplateNames, msg \in Messages,
          time \in TemplateTimes, targets \in TemplateTargets :
          save_template(g, name, msg, time, targets)

UseTemplate ==
    /\ nextId <= TemplateReminders
    /\ \E g \in TemplateGuilds, name \in TemplateNames,
          time \in OverrideTimes, targets \in OverrideTargets,
          callable \in BOOLEAN :
          use_template(g, name, time, targets, FALSE, callable)

NextTemplates == SaveTemplate \/ UseTemplate \/ CommandTock

SpecTemplates == InitBatch /\ [][NextTemplates]_vars

\* two guilds, each asking for the reminders of both
GuildAddPing ==
    /\ nextId <= GuildReminders
    /\ \E g \in OwnerGuilds, words \in TargetInputs, msg \in Messages,
          c \in CommandPings : add_ping(g, words, c[1], c[2], msg, c[3])

GuildPausePing ==
    \E g \in OwnerGuilds, id \in 1..GuildReminders : pause_ping(g, id)

GuildResumePing ==
    \E g \in OwnerGuilds, id \in 1..GuildReminders : resume_ping(g, id)

GuildDelete ==
    \E g \in OwnerGuilds, id \in 1..GuildReminders : handle_delete(g, id)

GuildPauseAll == \E g \in OwnerGuilds : pause_all(g)

GuildPauseAllConfirm == \E g \in OwnerGuilds : pause_all_confirm(g)

NextGuilds ==
    \/ GuildAddPing \/ GuildPausePing \/ GuildResumePing \/ GuildDelete
    \/ GuildPauseAll \/ GuildPauseAllConfirm \/ CommandTock

SpecGuilds == InitBatch /\ [][NextGuilds]_vars

\* the scheduler under fair scheduling: one interval ping in a UTC guild on
\* a UTC host, every lookup resolves, every send and every update succeeds
LiveInputs == {<<"minutes", 1, FALSE>>, <<"minutes", 0, FALSE>>}

LiveDispatch ==
    \E k \in Tasks, res \in SUBSET {1, 2} :
       /\ k \in DOMAIN tick
       /\ tick[k].pc = "loop"
       /\ tick[k].idx <= Len(tick[k].batch)
       /\ LET ids == tick[k].batch[tick[k].idx].row.target_ids
          IN  res = FirstN(ids, Len(ids))
       /\ TickDispatch(k, TRUE, res, TRUE, 1, TRUE)

LiveCommit == \E k \in Tasks : TickCommit(k, TRUE)

NextLive ==
    \/ AddPing(MaxReminders, LiveInputs)
    \/ on_ready \/ Begin \/ LiveDispatch \/ LiveCommit \/ End
    \/ Tock

\* the event loop runs every task that can run: the bot becomes ready, the
\* loop begins its iterations and every await of an iteration returns
SpecLive ==
    /\ InitBatch /\ [][NextLive]_vars
    /\ WF_vars(on_ready) /\ WF_vars(Begin) /\ WF_vars(LiveDispatch)
    /\ WF_vars(LiveCommit) /\ WF_vars(End)

\* one ping to two members, as DMs or as a channel post, in a UTC guild on a
\* UTC host: any of the two may have left, any send may fail, every update
\* succeeds
MultiTargets == {<<User(1), User(2)>>}

MultiInputs == {<<"minutes", 1, TRUE>>, <<"minutes", 1, FALSE>>}

MultiAddPing ==
    /\ nextId <= MaxReminders
    /\ \E g \in Guilds, words \in MultiTargets, msg \in Messages,
          c \in MultiInputs : add_ping(g, words, c[1], c[2], msg, c[3])

NextTargets ==
    \/ MultiAddPing
    \/ on_ready \/ Begin \/ Dispatch \/ LiveCommit \/ End
    \/ Tock

SpecTargets == InitBatch /\ [][NextTargets]_vars

\* the settings of two guilds, next to reminders of both
ChannelInputs == {21, 22}

SettingsSetChannel ==
    \E g \in OwnerGuilds, channel \in ChannelInputs : set_channel(g, channel)

SettingsSetTimezone ==
    \E g \in OwnerGuilds, name \in ZoneInputs \cup {"UTC"} : set_timezone(g, name)

NextSettings ==
    \/ GuildAddPing \/ SettingsSetChannel \/ SettingsSetTimezone

SpecSettings == InitBatch /\ [][NextSettings]_vars

\* the start of the bot on the store it finds: an empty one, one of the
\* earlier version (reminders without ghost_ping), or a current one
SetupReminders == 2

SetupRows ==
    {NewRow(g, ChannelOf(g), ParseTargets(<<User(1)>>), "hi", 1, "minutes",
            [w |-> StartClock, z |-> "+00:00"],
            [w |-> StartClock + 1, z |-> "+00:00"], FALSE, recurring, FALSE) :
       g \in OwnerGuilds, recurring \in BOOLEAN}

SetupStores == UNION {[1..n -> SetupRows] : n \in 0..SetupReminders}

SetupSchemas ==
    {EmptySchema, CurrentSchema}
       \cup {[reminders |-> "old", guild_settings |-> a, reminder_templates |-> b] :
               a, b \in BOOLEAN}

InitSetup ==
    /\ clock = StartClock
    /\ hostOff = 0
    /\ guild_settings = <<>>
    /\ schema \in SetupSchemas
    /\ reminders \in
          CASE schema.reminders = "absent" -> {<<>>}
            [] schema.reminders = "old" ->
                 {[i \in DOMAIN rows |-> WithoutGhostPing(rows[i])] :
                    rows \in SetupStores}
            [] OTHER -> SetupStores
    /\ nextId = Len(reminders) + 1
    /\ tick = <<>>
    /\ confirmView = {}
    /\ reply = "none"
    /\ ticks = 0
    /\ log = {}
    /\ lost = {}
    /\ templates = <<>>
    /\ aborted = {}
    /\ booted = FALSE

NextSetup == setup_database

SpecSetup == InitSetup /\ [][NextSetup]_vars

(******************************* claims ************************************)
\* the row the task k is processing
Cur(k) == tick[k].batch[tick[k].idx]

\* steps of the scheduler, told by what they do to the task k
Begins(k) == /\ k \in DOMAIN tick /\ k \in DOMAIN tick'
             /\ tick[k].pc = "idle" /\ tick'[k].pc = "loop"

Processes(k, outcome) ==
    /\ k \in DOMAIN tick /\ k \in DOMAIN tick'
    /\ tick[k].pc \in {"loop", "sent"}
    /\ tick[k].idx <= Len(tick[k].batch)
    /\ tick'[k].out = Append(tick[k].out, outcome)

Dies(k) == k \in DOMAIN tick /\ k \notin DOMAIN tick'

\* the isoformat text of the UTC instant c
UtcText(c) == [w |-> c, z |-> "+00:00"]

\* minutes between two fires of a row
IntervalMinutes(row) == row.interval * TIME_UNITS[row.time_unit]

\* the ticks that delivered the reminder id to somebody
DeliveringTicks(id) == {e.tick : e \in {f \in log : f.id = id /\ f.got # {}}}

\* C1: a one-time reminder is dispatched in at most one tick, and once a
\* tick has fired it, it is inactive.
C1_OneTimeFiresOnce ==
    \A id \in DOMAIN reminders :
       ~reminders[id].recurring =>
          /\ Cardinality(DeliveringTicks(id)) <= 1
          /\ (\E e \in log : e.id = id /\ e.committed /\ e.got # {})
                => ~reminders[id].active

\* C2: a failed send is followed, in the same step of the tick, by the state
\* transition of a fire: last_fired_at is the tick's now and the reminder is
\* no longer due at that now.
C2_SendFailureConsumesFire ==
    [][\A k \in Tasks :
          (/\ Processes(k, "send_error")
           /\ Cur(k).id \in DOMAIN reminders
           /\ Cur(k).row.recurring => IntervalMinutes(Cur(k).row) >= 1) =>
             /\ reminders'[Cur(k).id].last_ping = isoformat(tick[k].now)
             /\ ~Due(reminders'[Cur(k).id], isoformat(tick[k].now))]_vars

\* C3: the batch of a tick is exactly the active reminders whose next_fire_at,
\* as an absolute instant, is at or before the tick's now.
C3_BatchIsDueSet ==
    [][\A k \in Tasks :
          Begins(k) =>
             {tick'[k].batch[j].id : j \in 1..Len(tick'[k].batch)}
               = {i \in DOMAIN reminders :
                    /\ reminders[i].active
                    /\ Instant(reminders[i].next_ping) <= clock}]_vars

\* C4: a recurring reminder (interval >= 1) resumed at instant t is not due at
\* any tick snapshot from t up to, but not including, t plus one interval.
C4_ResumeWaitsOneInterval ==
    [][\A id \in DOMAIN reminders :
          (/\ id \in DOMAIN reminders'
           /\ ~reminders[id].active /\ reminders'[id].active
           /\ reminders[id].recurring
           /\ IntervalMinutes(reminders[id]) >= 1) =>
             \A c \in clock..(clock + IntervalMinutes(reminders[id]) - 1) :
                ~Due(reminders'[id], UtcText(c))]_vars

\* C5: the next_fire_at a tick writes for a recurring reminder is after the
\* tick's now and at most one interval after it.
C5_RearmWithinOneInterval ==
    [][\A k \in Tasks :
          (/\ Processes(k, "fired")
           /\ Cur(k).row.recurring
           /\ Cur(k).id \in DOMAIN reminders) =>
             LET next == Instant(reminders'[Cur(k).id].next_ping)
                 now == tick[k].now.wall
             IN  /\ now < next
                 /\ next <= now + IntervalMinutes(Cur(k).row)]_vars

\* a tick has fired a recurring reminder whose next_fire_at was two or more
\* intervals in the past
C5_Witness ==
    \E k \in DOMAIN tick : \E j \in 1..Len(tick[k].out) :
       /\ tick[k].out[j] = "fired"
       /\ tick[k].batch[j].row.recurring
       /\ Instant(tick[k].batch[j].row.next_ping)
            + 2 * IntervalMinutes(tick[k].batch[j].row) <= tick[k].now.wall

\* C6: the next_fire_at a tick writes for a recurring reminder is the fetched
\* next_fire_at (one stored as UTC text, so that its instant is not in
\* question) plus a positive whole number of intervals.
C6_RearmKeepsPhase ==
    [][\A k \in Tasks :
          (/\ Processes(k, "fired")
           /\ Cur(k).row.recurring
           /\ Cur(k).row.next_ping.z = "+00:00"
           /\ Cur(k).id \in DOMAIN reminders) =>
             LET d == Instant(reminders'[Cur(k).id].next_ping)
                        - Instant(Cur(k).row.next_ping)
             IN  d > 0 /\ d % IntervalMinutes(Cur(k).row) = 0]_vars

\* C7: when no target of a due reminder resolves, the tick sends nothing and
\* writes nothing, and a reminder nobody changed since it was fetched is due
\* again at any later snapshot.
C7_NoTargetsIsSkipped ==
    [][\A k \in Tasks :
          Processes(k, "no_targets") =>
             /\ reminders' = reminders
             /\ log' = log
             /\ (/\ Cur(k).id \in DOMAIN reminders
                 /\ reminders[Cur(k).id] = Cur(k).row) =>
                   Due(reminders'[Cur(k).id], UtcText(clock))]_vars

\* a tick has skipped a due reminder for want of targets and the reminder is
\* still stored, active and due
C7_Witness ==
    \E k \in DOMAIN tick : \E j \in 1..Len(tick[k].out) :
       /\ tick[k].out[j] = "no_targets"
       /\ tick[k].batch[j].id \in DOMAIN reminders
       /\ Due(reminders[tick[k].batch[j].id], UtcText(clock))

\* the failures of one row that C8 is about
Failures == {"no_guild", "no_targets", "send_error", "update_error"}

\* C8: when the for loop of a tick is over, every row of the batch has been
\* processed, whatever happened to the rows before it, and every row whose
\* own processing went through has its update in the store.
C8_FailuresAreIsolated ==
    \A k \in DOMAIN tick :
       (tick[k].pc = "loop" /\ tick[k].idx > Len(tick[k].batch)) =>
          /\ Len(tick[k].out) = Len(tick[k].batch)
          /\ \A j \in 1..Len(tick[k].batch) :
                (/\ tick[k].out[j] = "fired"
                 /\ tick[k].batch[j].id \in DOMAIN reminders) =>
                   reminders[tick[k].batch[j].id].last_ping
                     = isoformat(tick[k].now)

\* a tick is over whose first row failed and whose second row was fired
C8_Witness ==
    \E k \in DOMAIN tick :
       /\ tick[k].pc = "loop" /\ tick[k].idx > Len(tick[k].batch)
       /\ Len(tick[k].batch) = 2
       /\ tick[k].out[1] \in Failures
       /\ tick[k].out[2] = "fired"
       /\ tick[k].batch[2].id \in DOMAIN reminders
       /\ reminders[tick[k].batch[2].id].last_ping = isoformat(tick[k].now)

\* C9 as stated: a delivery that a crash left uncommitted is not followed by
\* a second delivery of the same occurrence.
C9_NoSecondDelivery ==
    \A e \in lost :
       (/\ e.got # {}
        /\ e.id \in DOMAIN reminders
        /\ reminders[e.id].recurring => IntervalMinutes(reminders[e.id]) >= 1) =>
          Cardinality({f \in log : f.id = e.id /\ f.occ = e.occ /\ f.got # {}})
            <= 1

\* C9 as amended: a crash between delivery and commit loses the fire: the
\* record is as no tick had written it (last_fired_at is the fetched one),
\* and a reminder nobody changed since it was fetched is still due.
C9_CrashLosesTheFire ==
    [][\A k \in Tasks :
          (/\ Dies(k)
           /\ tick[k].pc = "sent"
           /\ Cur(k).id \in DOMAIN reminders) =>
             /\ Cur(k).id \in DOMAIN reminders'
             /\ reminders'[Cur(k).id].last_ping = Cur(k).row.last_ping
             /\ (reminders[Cur(k).id] = Cur(k).row) =>
                   Due(reminders'[Cur(k).id], isoformat(tick[k].now))]_vars

\* after a crash that lost a delivery, a later tick has delivered the same
\* occurrence again
C9_Witness ==
    \E e \in lost : \E f \in log :
       /\ f.id = e.id /\ f.occ = e.occ /\ f.tick # e.tick /\ f.got # {}

\* C10: at most one loop task exists and at most one iteration is under way.
C10_OneTickAtATime ==
    /\ Cardinality(DOMAIN tick) <= 1
    /\ Cardinality({k \in DOMAIN tick : tick[k].pc # "idle"}) <= 1

\* an iteration is still busy after time has passed since its snapshot
C10_Witness ==
    \E k \in DOMAIN tick :
       /\ tick[k].pc = "sent"
       /\ tick[k].now.wall < clock

\* C11: no reminder is twice in the batch of a tick, and when a tick has
\* delivered a recurring reminder (interval >= 1) and committed its update,
\* every later tick that delivers it has a snapshot at least one interval
\* after that tick's snapshot.
C11_OneDispatchPerInterval ==
    /\ \A k \in DOMAIN tick : \A i, j \in 1..Len(tick[k].batch) :
          i # j => tick[k].batch[i].id # tick[k].batch[j].id
    /\ \A e, f \in log :
          (/\ e.id = f.id /\ e.tick < f.tick
           /\ e.got # {} /\ e.committed /\ f.got # {}
           /\ e.id \in DOMAIN reminders
           /\ reminders[e.id].recurring
           /\ IntervalMinutes(reminders[e.id]) >= 1) =>
             f.at >= e.at + IntervalMinutes(reminders[e.id])

\* C12: every stored next_fire_at and last_fired_at is text of a
\* timezone-aware instant with the UTC offset.
C12_StoredInstantsAreUtc ==
    \A id \in DOMAIN reminders :
       /\ reminders[id].next_ping.z = "+00:00"
       /\ reminders[id].last_ping.z = "+00:00"

\* minutes of one unit, as the claim C13 states them
UnitMinutes(unit) ==
    CASE unit = "minutes" -> 1 [] unit = "hours" -> 60 [] unit = "days" -> 1440

\* the step stores a new row and answers "created": add_ping or ghost_ping
CreatesPing == nextId' = nextId + 1 /\ reply' = "created"

\* C13: the next_fire_at that add_ping and ghost_ping store for a positive
\* amount is the creation instant plus amount times the minutes of the unit,
\* which is after the creation instant.
C13_FirstFireIsOneIntervalOn ==
    [][(CreatesPing /\ reminders'[nextId].interval >= 1) =>
          LET row == reminders'[nextId]
          IN  /\ row.next_ping.z = "+00:00"
              /\ row.next_ping.w = clock + row.interval * UnitMinutes(row.time_unit)
              /\ row.next_ping.w > clock]_vars

\* a ping of two hours is stored, due 120 minutes after its creation
C13_Witness ==
    \E id \in DOMAIN reminders :
       /\ reminders[id].time_unit = "hours" /\ reminders[id].interval = 2
       /\ reminders[id].next_ping.w = reminders[id].last_ping.w + 120

StoreUnchanged == UNCHANGED <<reminders, guild_settings, nextId>>

\* C15: add_reminder with a time expression parse_time does not know answers
\* with the invalid-time error and leaves the store as it was.
C15_UnknownTimeChangesNothing ==
    [][\A g \in Guilds, words \in CommandTargets, msg \in Messages,
          time \in TimeInputs, repeat \in CommandRepeats, dm \in BOOLEAN :
          (ParsedMinutes(time) < 0
           /\ add_reminder(g, words, time, msg, repeat, dm)) =>
             reply' = "invalid_time" /\ StoreUnchanged]_vars

\* an unknown time has been refused while a reminder was stored
C15_Witness == reply = "invalid_time" /\ reminders # <<>>

\* a target list with a user and a role in it
Mixed(words) == \E i, j \in 1..Len(words) : words[i].role /\ ~words[j].role

\* the answers of the early returns that refuse a request
ValidationErrors == {"invalid_time", "mixed_targets", "no_targets", "dm_to_role"}

\* C16: add_ping, ghost_ping and add_reminder with a user and a role among the
\* targets, in either order, answer with a validation error and store nothing.
C16_MixedTargetsAreRejected ==
    [][\A g \in Guilds, words \in CommandTargets, msg \in Messages :
          Mixed(words) =>
             /\ \A c \in CommandPings :
                   (add_ping(g, words, c[1], c[2], msg, c[3])
                    \/ ghost_ping(g, words, c[1], c[2], msg)) =>
                      reply' = "mixed_targets" /\ StoreUnchanged
             /\ \A time \in TimeInputs, repeat \in CommandRepeats, dm \in BOOLEAN :
                   add_reminder(g, words, time, msg, repeat, dm) =>
                      reply' \in ValidationErrors /\ StoreUnchanged]_vars

\* a mixed target list has been refused while a reminder was stored
C16_Witness == reply = "mixed_targets" /\ reminders # <<>>

\* C17: a stored DM reminder targets users and is no ghost ping.
C17_DmIsForUsersAndNoGhost ==
    \A id \in DOMAIN reminders :
       reminders[id].dm =>
          reminders[id].target_type = "user" /\ ~reminders[id].ghost_ping

\* a DM reminder is stored, and a DM to a role has just been refused
C17_Witness ==
    /\ reply = "dm_to_role"
    /\ \E id \in DOMAIN reminders : reminders[id].dm

\* C18: every stored reminder has an interval of at least 1.
C18_StoredIntervalIsPositive ==
    \A id \in DOMAIN reminders : reminders[id].interval >= 1

\* C19: pause_ping on a reminder that is not active and resume_ping on one
\* that is active answer with an error and leave the store as it was.
C19_RepeatedPauseOrResumeIsRefused ==
    [][\A g \in Guilds, id \in 1..CommandReminders :
          /\ (Found(g, id) /\ ~reminders[id].active /\ pause_ping(g, id)) =>
                reply' = "already_paused" /\ StoreUnchanged
          /\ (Found(g, id) /\ reminders[id].active /\ resume_ping(g, id)) =>
                reply' = "already_active" /\ StoreUnchanged]_vars

\* a pause of a paused reminder has been refused
C19_Witness ==
    /\ reply = "already_paused"
    /\ \E id \in DOMAIN reminders : ~reminders[id].active

\* the answers that tell the caller of an error
ErrorReplies == ValidationErrors \cup
                   {"error_occurred", "not_found", "already_paused",
                    "already_active"}

\* C20: add_reminder, pause_ping and resume_ping answer with an error only
\* when the store is as it was before the call.
C20_ErrorMeansNoChange ==
    [][\A g \in Guilds, id \in 1..CommandReminders, words \in CommandTargets,
          msg \in Messages, time \in TimeInputs, repeat \in CommandRepeats,
          dm \in BOOLEAN :
          (/\ \/ pause_ping(g, id)
              \/ resume_ping(g, id)
              \/ add_reminder(g, words, time, msg, repeat, dm)
           /\ reply' \in ErrorReplies) => StoreUnchanged]_vars

\* the template of guild g named name, or 0
TemplateOf(g, name) ==
    IF TemplateRows(g, name) = {} THEN 0
    ELSE CHOOSE i \in TemplateRows(g, name) : TRUE

\* C21: no two templates ever share a (guild, name) pair; a /savetemplate
\* whose (guild, name) pair is already stored answers "already exists" and
\* leaves every template as it was, and one whose name is stored for another
\* guild only is accepted and adds the template.
C21_TemplateNamesAreUnique ==
    [][/\ \A i, j \in DOMAIN templates' :
             (/\ templates'[i].guild_id = templates'[j].guild_id
              /\ templates'[i].name = templates'[j].name) => i = j
       /\ \A g \in TemplateGuilds, name \in TemplateNames, msg \in Messages,
             time \in TemplateTimes, targets \in TemplateTargets :
             save_template(g, name, msg, time, targets) =>
                IF TemplateOf(g, name) # 0
                THEN reply' = "template_exists" /\ templates' = templates
                ELSE /\ reply' = "template_saved"
                     /\ Len(templates') = Len(templates) + 1
                     /\ \A i \in DOMAIN templates : templates'[i] = templates[i]
                     /\ templates'[Len(templates')] =
                          [guild_id |-> g, name |-> name, message |-> msg,
                           time |-> time, targets |-> targets]]_vars

\* a name saved in two guilds, then a duplicate save that was refused
C21_Witness ==
    /\ reply = "template_exists"
    /\ \E i, j \in DOMAIN templates :
          /\ templates[i].name = templates[j].name
          /\ templates[i].guild_id # templates[j].guild_id

\* C22: /usetemplate on a stored template whose time and targets (the
\* template's defaults, each replaced by the override when one is given)
\* are usable creates a reminder with the template's message, due at that
\* time and addressed to those targets.
C22_TemplateFillsTheReminder ==
    [][\A g \in TemplateGuilds, name \in TemplateNames,
          time \in OverrideTimes, targets \in OverrideTargets,
          callable \in BOOLEAN :
          (/\ TemplateOf(g, name) # 0
           /\ use_template(g, name, time, targets, FALSE, callable)) =>
             LET t == templates[TemplateOf(g, name)]
                 the_time == IF time # "" THEN time ELSE t.time
                 the_targets == IF targets # "" THEN targets ELSE t.targets
                 p == ParseTargets(Words(the_targets))
             IN  (ParsedMinutes(the_time) >= 0 /\ p.ok) =>
                    /\ DOMAIN reminders' = DOMAIN reminders \cup {nextId}
                    /\ reminders'[nextId].guild_id = g
                    /\ reminders'[nextId].message = t.message
                    /\ reminders'[nextId].next_ping =
                         isoformat(parse_time(the_time, TimezoneOf(g)))
                    /\ reminders'[nextId].target_ids = p.ids
                    /\ reminders'[nextId].target_type = p.type]_vars

\* C23: /settimezone with a name pytz does not know answers "invalid
\* timezone" and leaves guild_settings as it was, the guild's row changed
\* or created by no such call; with a name pytz knows the guild's stored
\* timezone becomes that name and no other row or column changes.
C23_InvalidTimezoneChangesNothing ==
    [][\A g \in Guilds, name \in ZoneInputs :
          set_timezone(g, name) =>
             IF name \in Zones
             THEN /\ reply' = "timezone_set"
                  /\ DOMAIN guild_settings' = DOMAIN guild_settings \cup {g}
                  /\ guild_settings'[g].timezone = name
                  /\ \A h \in DOMAIN guild_settings :
                        /\ h # g => guild_settings'[h] = guild_settings[h]
                        /\ guild_settings'[h].default_channel_id =
                             guild_settings[h].default_channel_id
             ELSE /\ reply' = "invalid_timezone"
                  /\ guild_settings' = guild_settings]_vars

\* an unknown name was refused for a guild whose timezone had been set
C23_Witness ==
    /\ reply = "invalid_timezone"
    /\ \E g \in DOMAIN guild_settings :
          guild_settings[g].timezone = "Africa/Lagos"

\* C24: /pauseping, /resumeping and a delete asked by a guild for the id of
\* a reminder of another guild answer "not found" and leave the reminders
\* as they were; and whenever a command removes a reminder or changes its
\* active flag or next_ping, the step is a pause, resume, delete or
\* pause-all of the guild that owns it.
C24_OnlyTheOwnerChangesAReminder ==
    [][/\ \A g \in OwnerGuilds, id \in DOMAIN reminders :
             (/\ reminders[id].guild_id # g
              /\ \/ pause_ping(g, id)
                 \/ resume_ping(g, id)
                 \/ handle_delete(g, id)) =>
                reply' = "not_found" /\ reminders' = reminders
       /\ \A g \in OwnerGuilds :
             pause_all_confirm(g) =>
                \A i \in DOMAIN reminders :
                   reminders[i].guild_id # g =>
                      i \in DOMAIN reminders' /\ reminders'[i] = reminders[i]
       /\ \A i \in DOMAIN reminders :
             (\/ i \notin DOMAIN reminders'
              \/ reminders'[i].active # reminders[i].active
              \/ reminders'[i].next_ping # reminders[i].next_ping) =>
                LET g == reminders[i].guild_id
                IN  \/ pause_ping(g, i)
                    \/ resume_ping(g, i)
                    \/ handle_delete(g, i)
                    \/ pause_all_confirm(g)]_vars

\* both guilds own a reminder and a request for the other guild's one was
\* answered "not found"
C24_Witness ==
    /\ reply = "not_found"
    /\ DOMAIN reminders = 1..GuildReminders
    /\ reminders[1].guild_id # reminders[2].guild_id

\* C25: when the connection or the due query of an iteration raises, the
\* iteration ends without touching the store or delivering anything, the
\* loop task is still there and idle, and an iteration that begins after an
\* aborted one fetches the rows that are due at its own snapshot.
C25_StoreFailureAbortsOneTick ==
    [][\A k \in Tasks :
          /\ TickAbort(k) =>
                /\ k \in DOMAIN tick' /\ tick'[k] = IdleTick
                /\ StoreUnchanged /\ log' = log
          /\ (aborted # {} /\ TickBegin(k)) =>
                /\ tick'[k].now = now_tz("UTC")
                /\ \A i \in DOMAIN reminders :
                      (reminders[i].active
                       /\ Instant(reminders[i].next_ping) <= clock) =>
                         \E j \in DOMAIN tick'[k].batch :
                            tick'[k].batch[j].id = i]_vars

\* the iteration after an aborted one delivered a reminder and stored it
C25_Witness ==
    \E e \in log : e.committed /\ e.got # {} /\ (e.tick - 1) \in aborted

\* history: the current row of task k was posted by this iteration and the
\* post could not be deleted
KeptPost(k) ==
    \E e \in log : e.kept /\ e.tick = tick[k].no /\ e.id = Cur(k).id

\* C26: when the post of a ghost ping was sent and deleting it fails, the
\* row goes on to its update in the same iteration: the step that fails to
\* delete leaves the task at the update of that row, and the update, when
\* the store executes it, sets last_ping to the snapshot, moves next_ping
\* past it and passes to the next row of the batch.
C26_FailedRetractionStillConsumes ==
    [][\A k \in Tasks :
          /\ (/\ k \in DOMAIN tick /\ tick[k].pc = "loop"
              /\ \E e \in log' \ log : e.kept /\ e.tick = tick[k].no) =>
                /\ tick'[k].pc = "sent"
                /\ tick'[k].idx = tick[k].idx
                /\ tick'[k].batch = tick[k].batch
          /\ (/\ k \in DOMAIN tick /\ tick[k].pc = "sent"
              /\ KeptPost(k)
              /\ TickCommit(k, TRUE)) =>
                LET id == Cur(k).id
                    now == tick[k].now
                IN  /\ reminders'[id].last_ping = isoformat(now)
                    /\ reminders'[id].next_ping =
                         isoformat(plus_minutes(now, IntervalMinutes(Cur(k).row)))
                    /\ tick'[k].pc = "loop"
                    /\ tick'[k].idx = tick[k].idx + 1]_vars

\* a post that could not be deleted was consumed, and the same iteration
\* went on to deliver the next row of its batch
C26_Witness ==
    \E e, f \in log :
       /\ e.kept /\ e.committed
       /\ f.tick = e.tick /\ f.id > e.id /\ f.got # {}

\* C27: the snapshot an iteration took when it began stays the same until
\* the iteration ends, and every update of the iteration writes it as
\* last_ping and, for a recurring row, writes next_ping one interval after
\* it, however far the clock has moved since.
C27_OneSnapshotPerTick ==
    [][\A k \in Tasks :
          /\ (/\ k \in DOMAIN tick /\ k \in DOMAIN tick'
              /\ tick[k].pc # "idle" /\ tick'[k].pc # "idle") =>
                tick'[k].now = tick[k].now
          /\ Begins(k) => tick'[k].now = now_tz("UTC")
          /\ (Processes(k, "fired") /\ Cur(k).id \in DOMAIN reminders') =>
                LET id == Cur(k).id
                    row == Cur(k).row
                    now == tick[k].now
                IN  /\ reminders'[id].last_ping = isoformat(now)
                    /\ (row.recurring /\ IntervalMinutes(row) > 0) =>
                          reminders'[id].next_ping =
                             isoformat(plus_minutes(now, IntervalMinutes(row)))]_vars

\* two rows of one batch were updated with the same snapshot after the clock
\* had moved on
C27_Witness ==
    \E e, f \in log :
       /\ e.tick = f.tick /\ e.id # f.id /\ e.committed /\ f.committed
       /\ e.id \in DOMAIN reminders /\ f.id \in DOMAIN reminders
       /\ reminders[e.id].last_ping = UtcText(e.at)
       /\ reminders[f.id].last_ping = UtcText(e.at)
       /\ clock > e.at

\* C28: for every guild and either kind, the rows /list fetches are exactly
\* the guild's stored reminders of that kind, each once, and they come in
\* ascending order of the instants their next_ping denote.
C28_ListIsChronological ==
    \A g \in Guilds, recurring \in BOOLEAN :
       LET rows == ListQuery(g, recurring)
       IN  /\ {rows[a] : a \in DOMAIN rows} =
                {i \in DOMAIN reminders : /\ reminders[i].guild_id = g
                                          /\ reminders[i].recurring = recurring}
           /\ \A a, b \in DOMAIN rows :
                 /\ a # b => rows[a] # rows[b]
                 /\ a < b => Instant(reminders[rows[a]].next_ping)
                              <= Instant(reminders[rows[b]].next_ping)

\* C29: a delete of a stored reminder of the guild removes that row and
\* nothing else: the other reminders, the templates, the settings and the
\* id counter stay as they were; no step ever brings back an id that was
\* given out and is no longer stored; and the batch an iteration fetches
\* holds stored rows only.
C29_DeleteRemovesOneRowForGood ==
    [][/\ \A g \in Guilds, id \in 1..BatchReminders :
             (Found(g, id) /\ handle_delete(g, id)) =>
                /\ reply' = "deleted"
                /\ DOMAIN reminders' = DOMAIN reminders \ {id}
                /\ \A i \in DOMAIN reminders' : reminders'[i] = reminders[i]
                /\ UNCHANGED <<templates, guild_settings, nextId>>
       /\ nextId' >= nextId
       /\ \A id \in 1..(nextId - 1) :
             id \notin DOMAIN reminders => id \notin DOMAIN reminders'
       /\ \A k \in Tasks :
             Begins(k) =>
                \A j \in DOMAIN tick'[k].batch :
                   tick'[k].batch[j].id \in DOMAIN reminders]_vars

\* a reminder that had fired was deleted, another one is stored, and a later
\* iteration has fetched its batch
C29_Witness ==
    \E e \in log, k \in DOMAIN tick :
       /\ e.committed /\ e.id \notin DOMAIN reminders
       /\ DOMAIN reminders # {}
       /\ tick[k].pc = "loop" /\ tick[k].no > e.tick

\* C30: a reminder created with the cadence (2, hours) can be edited: some
\* command changes its message and leaves next_ping unchanged, and some
\* command changes its interval and sets next_ping to the new interval after
\* the instant of the edit.
C30_EditKeepsOrRecomputes ==
    \A id \in DOMAIN reminders :
       (reminders[id].interval = 2 /\ reminders[id].time_unit = "hours") =>
          /\ ENABLED (/\ NextCommands
                      /\ id \in DOMAIN reminders'
                      /\ reminders'[id].message # reminders[id].message
                      /\ reminders'[id].next_ping = reminders[id].next_ping)
          /\ ENABLED (/\ NextCommands
                      /\ id \in DOMAIN reminders'
                      /\ reminders'[id].interval # reminders[id].interval
                      /\ Instant(reminders'[id].next_ping) =
                            clock + IntervalMinutes(reminders'[id]))

\* the stored row id is active and the instant of its next_ping has come
ReachedDue(id) ==
    /\ id \in DOMAIN reminders
    /\ reminders[id].active
    /\ Instant(reminders[id].next_ping) <= clock

\* C31: with fair scheduling, a reminder that is active and whose next_ping
\* has been reached while the loop still has an iteration to begin is
\* delivered by a later iteration, unless it stops being active and due
\* first; so a recurring reminder that stays due is delivered again and
\* again.
C31_DueIsEventuallyDispatched ==
    \A id \in 1..MaxReminders : \A n \in 0..(MaxTicks - 1) :
       (ReachedDue(id) /\ ticks = n)
          ~> (\/ \E e \in log : e.id = id /\ e.tick > n /\ e.got # {}
              \/ ~ReachedDue(id))

\* C32: when an iteration delivers a row it reaches after an earlier row of
\* its batch, that row is in the store and active at the moment of the
\* delivery.
C32_DispatchedOnlyIfStillActive ==
    [][\A k \in Tasks :
          (/\ k \in DOMAIN tick
           /\ tick[k].pc = "loop"
           /\ tick[k].idx > 1
           /\ \E e \in log' \ log : e.tick = tick[k].no /\ e.got # {}) =>
             /\ Cur(k).id \in DOMAIN reminders
             /\ reminders[Cur(k).id].active]_vars

\* C33: no iteration of the loop is ever caught in the re-arm loop: for every
\* recurring reminder the commands store, the loop over next_ping_time
\* leaves after finitely many additions.
C33_EveryTickTerminates ==
    \A k \in DOMAIN tick : tick[k].pc # "hung"

\* C34: the UPDATE of a fire of a recurring reminder changes last_ping and
\* next_ping of that row and nothing else: its active flag (a pause committed
\* while the delivery was in flight included), interval, unit, targets,
\* message, channel and flags stay, and so does every other row.
C34_FireChangesTwoFields ==
    [][\A k \in Tasks :
          (Processes(k, "fired") /\ Cur(k).row.recurring) =>
             /\ DOMAIN reminders' = DOMAIN reminders
             /\ \A i \in DOMAIN reminders :
                   IF i = Cur(k).id
                   THEN reminders'[i] =
                           [reminders[i] EXCEPT
                              !.last_ping = reminders'[i].last_ping,
                              !.next_ping = reminders'[i].next_ping]
                   ELSE reminders'[i] = reminders[i]]_vars

\* a recurring reminder that was fetched active is paused in the store right
\* after its fire was written, next to another row
C34_Witness ==
    \E k \in DOMAIN tick :
       /\ tick[k].pc = "loop" /\ tick[k].idx > 1
       /\ tick[k].out[tick[k].idx - 1] = "fired"
       /\ LET c == tick[k].batch[tick[k].idx - 1]
          IN  /\ c.row.recurring /\ c.row.active
              /\ c.id \in DOMAIN reminders
              /\ ~reminders[c.id].active
              /\ reminders[c.id].last_ping = isoformat(tick[k].now)
              /\ Cardinality(DOMAIN reminders) > 1

\* C35: an iteration writes the fire of a row (last_ping, and the re-arm or
\* the retirement) only after it handed the message to somebody; a row whose
\* channel does not resolve is not written as fired.
C35_FireConsumedOnlyAfterSend ==
    \A e \in log : e.committed => e.got # {}

\* C36: of a DM reminder, no member receives the message of one due
\* occurrence in two iterations: when an iteration delivered it to some of the
\* targets only, a later iteration does not deliver it to those again.
C36_EachTargetOncePerOccurrence ==
    \A e, f \in log :
       (/\ e.id = f.id /\ e.occ = f.occ /\ e.tick < f.tick
        /\ e.id \in DOMAIN reminders
        /\ reminders[e.id].dm) =>
          e.got \cap f.got = {}

\* C37: when the guild resolves, the members res of the targets resolve (at
\* least one) and every send succeeds, the iteration delivers the message to
\* exactly res, leaves the store alone and goes on to the update of the row,
\* as it does when every target resolves.
C37_DeliversToResolvedTargets ==
    [][\A k \in Tasks, res \in SUBSET {1, 2}, sent \in 1..2 :
          (/\ TickDispatch(k, TRUE, res, TRUE, sent, TRUE)
           /\ res # {}
           /\ sent = IF Cur(k).row.dm /\ Cur(k).row.target_type = "user"
                     THEN Cardinality(res) ELSE 1) =>
             /\ log' = log \cup {Entry(tick[k], res)}
             /\ tick' = [tick EXCEPT ![k].pc = "sent"]
             /\ reminders' = reminders]_vars

\* a fire was written after a delivery to one of the two targets of a row
C37_Witness ==
    \E e \in log :
       /\ e.committed
       /\ Cardinality(e.got) = 1
       /\ e.id \in DOMAIN reminders
       /\ Len(reminders[e.id].target_ids) = 2
       /\ reminders[e.id].last_ping = UtcText(e.at)
       /\ Instant(reminders[e.id].next_ping) = e.at + 1

\* C38: /setchannel and /settimezone (with a known zone) leave the guild
\* with a settings row that holds the new value in their own column and, in
\* the other column, what it held before (a row created by /setchannel has
\* timezone UTC); the rows of other guilds and all reminders stay as they
\* were, and no step ever removes a settings row.
C38_SettingsChangeOnlyTheirField ==
    [][/\ \A g \in OwnerGuilds, channel \in ChannelInputs :
             set_channel(g, channel) =>
                /\ DOMAIN guild_settings' = DOMAIN guild_settings \cup {g}
                /\ guild_settings'[g].default_channel_id = channel
                /\ guild_settings'[g].timezone = TimezoneOf(g)
                /\ \A h \in DOMAIN guild_settings \ {g} :
                      guild_settings'[h] = guild_settings[h]
                /\ reminders' = reminders
       /\ \A g \in OwnerGuilds, name \in Zones :
             set_timezone(g, name) =>
                /\ DOMAIN guild_settings' = DOMAIN guild_settings \cup {g}
                /\ guild_settings'[g].timezone = name
                /\ guild_settings'[g].default_channel_id =
                      IF g \in DOMAIN guild_settings
                      THEN guild_settings[g].default_channel_id ELSE NoChannel
                /\ \A h \in DOMAIN guild_settings \ {g} :
                      guild_settings'[h] = guild_settings[h]
                /\ reminders' = reminders
       /\ DOMAIN guild_settings \subseteq DOMAIN guild_settings']_vars

\* /setchannel has just answered in a guild whose timezone had been set, next
\* to a guild it created the row of and to a reminder
C38_Witness ==
    /\ reply = "channel_set"
    /\ DOMAIN guild_settings = {1, 2}
    /\ guild_settings[1] = [default_channel_id |-> 21, timezone |-> "Africa/Lagos"]
    /\ guild_settings[2] = [default_channel_id |-> 22, timezone |-> "UTC"]
    /\ reminders # <<>>

\* C39: the confirmation of /pauseall in a guild makes inactive every
\* reminder of the guild that is active when it runs, whenever it was
\* created; it changes no other column of those rows, no row that is
\* inactive already and no row of another guild, and removes or adds none.
C39_PauseAllPausesTheGuild ==
    [][\A g \in OwnerGuilds :
          pause_all_confirm(g) =>
             /\ DOMAIN reminders' = DOMAIN reminders
             /\ \A i \in DOMAIN reminders :
                   /\ reminders'[i] =
                         [reminders[i] EXCEPT !.active = reminders'[i].active]
                   /\ reminders'[i].active =
                         (reminders[i].active /\ reminders[i].guild_id # g)]_vars

\* /pauseall was confirmed in a guild: its reminder is inactive, the
\* reminder of the other guild is active
C39_Witness ==
    /\ reply = "all_paused"
    /\ \E i, j \in DOMAIN reminders :
          /\ reminders[i].guild_id # reminders[j].guild_id
          /\ ~reminders[i].active
          /\ reminders[j].active
          /\ reminders[i].guild_id \notin confirmView

\* C40: when setup_database has run, the store holds the three relations in
\* their current version, and every row the reminders table held before is
\* still there with every column it had; when the table had no ghost_ping
\* column, its rows have ghost_ping false.
C40_SetupLeavesTheSchema ==
    [][(~booted /\ booted') =>
          /\ schema' = CurrentSchema
          /\ DOMAIN reminders' = DOMAIN reminders
          /\ \A i \in DOMAIN reminders :
                /\ \A c \in DOMAIN reminders[i] :
                      reminders'[i][c] = reminders[i][c]
                /\ ~has_ghost_ping => reminders'[i].ghost_ping = FALSE]_vars

====
